---- MODULE Spec2Model ----
(***************************************************************************)
(* Job orchestration engine of ifc_splitter.presentation.api.jobs          *)
(* (JobManager): the in-memory job table, the metadata snapshot on disk,   *)
(* the worker pool with its completion hooks, and the retention sweep.     *)
(*                                                                         *)
(* Thread 0 is the event-loop thread: the async routes and the periodic    *)
(* cleanup call create_job, submit_processing and cleanup_old_jobs on it,  *)
(* one call at a time.  The other threads are the ThreadPoolExecutor      *)
(* workers: each runs process_file_task and then the done-callback         *)
(* (_on_job_complete) of the future it resolved.  No lock guards the job   *)
(* table or the metadata file, so every read or write of shared state is   *)
(* one step and steps of different threads interleave freely.              *)
(***************************************************************************)
EXTENDS Integers, Sequences, FiniteSets, TLC

\* ------------------------------------------------------------------ bounds
MaxJobs == 2        \* create_job calls (ids 1..MaxJobs stand for the uuid4 values)
MaxSubmits == 2     \* submit_processing calls on known ids
MaxTime == 1        \* readings of datetime.now()
MaxCrashes == 1     \* process restarts
MaxFaults == 1      \* failing writes of the metadata file
MaxFileLen == 2     \* records of a metadata file found at start-up (LoadSpec)

\* ------------------------------------------------------- program constants
\* MAX_WORKERS unset: one worker thread.
max_workers == 1
\* MAX_WORKERS=2 in the environment: the pool PoolSpec runs with.
MAX_WORKERS == 2
\* JOB_TIMEOUT_SECONDS unset: 300 seconds.
job_timeout == 300

JobIds == 1..MaxJobs

\* ------------------------------------------------------------------- types
\* Optional[str]: None is <<>>, a string s is <<s>>.
None == <<>>
Some(s) == <<s>>
\* Python truthiness of an Optional[str]: None and "" are false.
Truthy(o) == o # None /\ o[1] # ""

\* JobStatus: member name -> value.
JobStatus == [PENDING |-> "pending", PROCESSING |-> "processing",
              COMPLETED |-> "completed", FAILED |-> "failed"]
StatusNames == DOMAIN JobStatus
\* JobStatus(value): the member with that value; ValueError when there is none.
IsStatusValue(v) == \E n \in StatusNames : JobStatus[n] = v
StatusOfValue(v) == CHOOSE n \in StatusNames : JobStatus[n] = v

\* datetime.isoformat / datetime.fromisoformat on the clock readings.
isoformat(t) == "2026-01-01T00:00:0" \o ToString(t)
IsIsoformat(s) == \E t \in 0..(MaxTime + 1) : isoformat(t) = s
fromisoformat(s) == CHOOSE t \in 0..(MaxTime + 1) : isoformat(t) = s

InputPath(id) == "uploads/" \o ToString(id) \o ".ifc"
OutputPath(id) == "processed/" \o ToString(id) \o "_filtered.ifc"

\* The Job dataclass as create_job fills it.
NewJob(id, cb, now) ==
    [id |-> id, status |-> "PENDING", input_path |-> InputPath(id),
     output_path |-> OutputPath(id), error |-> None, callback_url |-> cb,
     created_at |-> now]

CallbackUrls == {None, Some("http://cb")}

\* --------------------------------------------------------------- variables
VARIABLES
    clock,      \* datetime.now()
    nextId,     \* the next uuid4
    jobs,       \* the keys of self.jobs
    heap,       \* the Job objects, by id (an object outlives its key)
    disk,       \* the metadata file
    th,         \* per thread: where it is and its locals
    fut,        \* the futures the executor returned, in submission order
    queue,      \* the executor's work queue (indices into fut)
    notes,      \* per job id, the payloads POSTed to its callback URL
    submits,    \* submit_processing calls on known ids so far
    crashes,    \* restarts so far
    faults,     \* failed metadata writes so far
    files,      \* the paths that exist under upload_dir and output_dir
    sweeper     \* where the periodic cleanup task is

vars == <<clock, nextId, jobs, heap, disk, th, fut, queue, notes, submits,
          crashes, faults, files, sweeper>>

\* The threads of this run: 0, and the workers of the executor.
Threads == DOMAIN th
Workers == Threads \ {0}

\* ------------------------------------------------------- metadata snapshot
AbsentFile == [kind |-> "absent", recs |-> <<>>]
\* A file json.load rejects: empty after open(..., 'w'), or cut short.
GarbageFile == [kind |-> "garbage", recs |-> <<>>]
JsonFile(recs) == [kind |-> "json", recs |-> recs]

\* Mutation of the dict: the member's name where its value belongs.
JobDictStatusName(job) ==
    [id |-> job.id, status |-> job.status,
     input_path |-> job.input_path, output_path |-> job.output_path,
     error |-> job.error, callback_url |-> job.callback_url,
     created_at |-> isoformat(job.created_at)]

\* The dict _save_jobs_metadata builds for one job.
JobDict(job) ==
    [id |-> job.id, status |-> JobStatus[job.status],
     input_path |-> job.input_path, output_path |-> job.output_path,
     error |-> job.error, callback_url |-> job.callback_url,
     created_at |-> isoformat(job.created_at)]

\* self.jobs.values(): insertion order, which is the order of the ids.
RECURSIVE JobsData(_, _)
JobsData(keys, objs) ==
    IF keys = {} THEN <<>>
    ELSE LET k == CHOOSE x \in keys : \A y \in keys : x <= y
         IN <<JobDict(objs[k])>> \o JobsData(keys \ {k}, objs)

\* A record the loop of _load_jobs_metadata raises on.
Malformed(d) == ~IsStatusValue(d.status) \/ ~IsIsoformat(d.created_at)

JobOfDict(d) ==
    [id |-> d.id, status |-> StatusOfValue(d.status),
     input_path |-> d.input_path, output_path |-> d.output_path,
     error |-> d.error, callback_url |-> d.callback_url,
     created_at |-> fromisoformat(d.created_at)]

\* The loop of _load_jobs_metadata over records i.., starting from objs:
\* each record is inserted as it is read, and the first exception ends it.
RECURSIVE LoadLoop(_, _, _)
LoadLoop(recs, i, objs) ==
    IF i > Len(recs) \/ Malformed(recs[i]) THEN objs
    ELSE LoadLoop(recs, i + 1,
                  [k \in (DOMAIN objs) \cup {recs[i].id} |->
                      IF k = recs[i].id THEN JobOfDict(recs[i]) ELSE objs[k]])

EmptyHeap == [k \in {} |-> 0]

\* _load_jobs_metadata: the objects of self.jobs after it.
LoadJobsMetadata(file) ==
    IF file.kind = "json" THEN LoadLoop(file.recs, 1, EmptyHeap) ELSE EmptyHeap

\* ----------------------------------------------------------------- threads
\* A thread between calls; job_id, f (its future), buf (jobs_data) and after
\* (where it goes once _save_jobs_metadata returns) are its locals.
IdleThread == [pc |-> "idle", job_id |-> 0, f |-> 0, buf |-> <<>>,
               after |-> "idle"]

\* A future nobody holds any more (or not created yet).
NoFuture == [job_id |-> 0, output_path |-> "", state |-> "NONE",
             hooked |-> FALSE, outcome |-> [kind |-> "none", msg |-> ""]]

\* The Job objects still referenced: those in self.jobs and those a running
\* call holds in its local variable `job`.
Referenced(objs, keys, threads) ==
    [k \in {x \in DOMAIN objs :
               x \in keys \/ \E t \in Threads : threads[t].pc # "idle"
                                               /\ threads[t].job_id = x}
       |-> objs[k]]

Init ==
    /\ clock = 0
    /\ nextId = 1
    /\ jobs = {}
    /\ heap = EmptyHeap
    /\ disk = AbsentFile
    /\ th = [t \in 0..max_workers |-> IdleThread]
    /\ fut = [f \in 1..MaxSubmits |-> NoFuture]
    /\ queue = <<>>
    /\ notes = [j \in JobIds |-> <<>>]
    /\ submits = 0
    /\ crashes = 0
    /\ faults = 0
    /\ files = {}
    /\ sweeper = "sleeping"

\* datetime.now() moves on.  It is read when thread 0 starts a call, so the
\* clock moves between the calls.
Tick ==
    /\ clock < MaxTime
    /\ th[0].pc = "idle"
    /\ clock' = clock + 1
    /\ UNCHANGED <<nextId, jobs, heap, disk, th, fut, queue, notes, submits,
                   crashes, faults, files, sweeper>>

\* ------------------------------------------------- _save_jobs_metadata
\* The loop over self.jobs.values() that builds jobs_data.
SaveBuild(t) ==
    /\ th[t].pc = "save_build"
    /\ th' = [th EXCEPT ![t].pc = "save_write", ![t].buf = JobsData(jobs, heap)]
    /\ UNCHANGED <<clock, nextId, jobs, heap, disk, fut, queue, notes,
                   submits, crashes, faults, files, sweeper>>

\* Where a thread goes when _save_jobs_metadata returns: on with its call,
\* or, when the save ends the call, back to idle.
AfterSave(t) ==
    [th EXCEPT ![t] = IF th[t].after = "idle" THEN IdleThread
                      ELSE [th[t] EXCEPT !.pc = th[t].after, !.buf = <<>>,
                                         !.after = "idle"]]

\* What open(self.metadata_file, 'w') and json.dump(jobs_data, f) leave in
\* the file.
Written(jobs_data) == JsonFile(jobs_data)

SaveWrite(t) ==
    /\ th[t].pc = "save_write"
    /\ disk' = Written(th[t].buf)
    /\ th' = AfterSave(t)
    /\ heap' = Referenced(heap, jobs, th')
    /\ UNCHANGED <<clock, nextId, jobs, fut, queue, notes, submits, crashes,
                   faults, files, sweeper>>

\* open(..., 'w') raises: the file is untouched, the exception is logged.
SaveOpenFails(t) ==
    /\ th[t].pc = "save_write"
    /\ faults < MaxFaults
    /\ faults' = faults + 1
    /\ th' = AfterSave(t)
    /\ heap' = Referenced(heap, jobs, th')
    /\ UNCHANGED <<clock, nextId, jobs, disk, fut, queue, notes, submits,
                   crashes, files, sweeper>>

\* Mutation of the save: the exception of the failed write is not caught and
\* ends the call that was saving.
SaveDumpFailsPropagates(t) ==
    /\ th[t].pc = "save_write"
    /\ faults < MaxFaults
    /\ faults' = faults + 1
    /\ disk' = GarbageFile
    /\ th' = [th EXCEPT ![t] = IdleThread]
    /\ heap' = Referenced(heap, jobs, th')
    /\ UNCHANGED <<clock, nextId, jobs, fut, queue, notes, submits, crashes,
                   files, sweeper>>

\* open(..., 'w') has truncated the file and json.dump (or the flush on
\* close) raises: what is left is not a JSON document.
SaveDumpFails(t) ==
    /\ th[t].pc = "save_write"
    /\ faults < MaxFaults
    /\ faults' = faults + 1
    /\ disk' = GarbageFile
    /\ th' = AfterSave(t)
    /\ heap' = Referenced(heap, jobs, th')
    /\ UNCHANGED <<clock, nextId, jobs, fut, queue, notes, submits, crashes,
                   files, sweeper>>

\* ------------------------------------------------------------- create_job
CreateJob(cb) ==
    /\ th[0].pc = "idle"
    /\ nextId <= MaxJobs
    /\ nextId' = nextId + 1
    /\ jobs' = jobs \cup {nextId}
    /\ heap' = [k \in (DOMAIN heap) \cup {nextId} |->
                   IF k = nextId THEN NewJob(nextId, cb, clock) ELSE heap[k]]
    /\ th' = [th EXCEPT ![0] = [IdleThread EXCEPT !.pc = "save_build",
                                                  !.job_id = nextId]]
    /\ UNCHANGED <<clock, disk, fut, queue, notes, submits, crashes, faults,
                   files, sweeper>>

\* ------------------------------------------------------ submit_processing
\* Mutation of the lookup: an id that is not in the table gets a record (as
\* self.jobs.setdefault would give it) before the call raises.
SubmitUnknownInserts(j) ==
    /\ th[0].pc = "idle"
    /\ j \notin jobs
    /\ jobs' = jobs \cup {j}
    /\ heap' = [k \in (DOMAIN heap) \cup {j} |->
                   IF k = j THEN NewJob(j, None, clock) ELSE heap[k]]
    /\ th' = [th EXCEPT ![0].pc = "s_raise"]
    /\ UNCHANGED <<clock, nextId, disk, fut, queue, notes, submits, crashes,
                   faults, files, sweeper>>

\* self.jobs.get(job_id) finds nothing: the call is about to raise.
SubmitUnknown(j) ==
    /\ th[0].pc = "idle"
    /\ j \notin jobs
    /\ th' = [th EXCEPT ![0].pc = "s_raise"]
    /\ UNCHANGED <<clock, nextId, jobs, heap, disk, fut, queue, notes,
                   submits, crashes, faults, files, sweeper>>

\* raise ValueError(f"Job {job_id} not found"): the caller gets the exception.
SubmitNotFound ==
    /\ th[0].pc = "s_raise"
    /\ th' = [th EXCEPT ![0] = IdleThread]
    /\ UNCHANGED <<clock, nextId, jobs, heap, disk, fut, queue, notes,
                   submits, crashes, faults, files, sweeper>>

\* Mutation of submit_processing: the status is left for later and the job
\* goes to the save and to the pool as it is.
SubmitProcessingKeepsStatus(j) ==
    /\ th[0].pc = "idle"
    /\ j \in jobs
    /\ submits < MaxSubmits
    /\ submits' = submits + 1
    /\ th' = [th EXCEPT ![0] = [IdleThread EXCEPT !.pc = "save_build",
                                   !.job_id = j, !.after = "s_submit"]]
    /\ UNCHANGED <<clock, nextId, jobs, heap, disk, fut, queue, notes,
                   crashes, faults, files, sweeper>>

\* job.status = JobStatus.PROCESSING, whatever the status was; then the save.
SubmitProcessing(j) ==
    /\ th[0].pc = "idle"
    /\ j \in jobs
    /\ submits < MaxSubmits
    /\ submits' = submits + 1
    /\ heap' = [heap EXCEPT ![j].status = "PROCESSING"]
    /\ th' = [th EXCEPT ![0] = [IdleThread EXCEPT !.pc = "save_build",
                                   !.job_id = j, !.after = "s_submit"]]
    /\ UNCHANGED <<clock, nextId, jobs, disk, fut, queue, notes, crashes,
                   faults, files, sweeper>>

\* The future of a work item; job.output_path is evaluated at the call and
\* travels with the item.
NewFuture(j) ==
    [job_id |-> j, output_path |-> heap[j].output_path, state |-> "PENDING",
     hooked |-> FALSE, outcome |-> [kind |-> "none", msg |-> ""]]

\* self.executor.submit(process_file_task, ...) returns a future (the one of
\* the submits-th call) and the work item is queued.
ExecutorSubmit ==
    /\ th[0].pc = "s_submit"
    /\ fut' = [fut EXCEPT ![submits] = NewFuture(th[0].job_id)]
    /\ queue' = Append(queue, submits)
    /\ th' = [th EXCEPT ![0].pc = "s_callback", ![0].f = submits]
    /\ UNCHANGED <<clock, nextId, jobs, heap, disk, notes, submits, crashes,
                   faults, files, sweeper>>

SubmitFailedMessage == "Failed to submit job: cannot schedule new futures after shutdown"

\* The except block of submit_processing: the two assignments, and nothing
\* after them.
SubmitExcept(job) ==
    [job EXCEPT !.status = "FAILED", !.error = Some(SubmitFailedMessage)]

\* self.executor.submit raises (the pool is shut down, no thread can be
\* started): the except block runs and submit_processing returns.
ExecutorRejects ==
    /\ th[0].pc = "s_submit"
    /\ th' = [th EXCEPT ![0] = IdleThread]
    /\ heap' = Referenced([heap EXCEPT ![th[0].job_id] = SubmitExcept(@)],
                          jobs, th')
    /\ UNCHANGED <<clock, nextId, jobs, disk, fut, queue, notes, submits,
                   crashes, faults, files, sweeper>>

\* Mutation of the registration: the callback is only stored, also on a
\* future that is already done, where nobody is left to invoke it.
AddDoneCallbackOnlyStores ==
    /\ th[0].pc = "s_callback"
    /\ fut' = [fut EXCEPT ![th[0].f].hooked = TRUE]
    /\ th' = [th EXCEPT ![0] = IdleThread]
    /\ heap' = Referenced(heap, jobs, th')
    /\ UNCHANGED <<clock, nextId, jobs, disk, queue, notes, submits, crashes,
                   faults, files, sweeper>>

\* future.add_done_callback(...): a future that is already done runs the
\* callback at once, on the calling thread; otherwise it is kept for the
\* thread that resolves the future.
AddDoneCallback ==
    /\ th[0].pc = "s_callback"
    /\ IF fut[th[0].f].state = "FINISHED"
       THEN /\ th' = [th EXCEPT ![0].pc = "h_get"]
            /\ fut' = fut
            /\ heap' = heap
       ELSE /\ fut' = [fut EXCEPT ![th[0].f].hooked = TRUE]
            /\ th' = [th EXCEPT ![0] = IdleThread]
            /\ heap' = Referenced(heap, jobs, th')
    /\ UNCHANGED <<clock, nextId, jobs, disk, queue, notes, submits, crashes,
                   faults, files, sweeper>>

\* ------------------------------------------------------------ worker pool
\* What use_case.execute does: it returns, or raises one of these.
Messages == {"", "GUID cannot be empty"}
RawOutcomes ==
    {[kind |-> "return", msg |-> ""],
     [kind |-> "MemoryError", msg |-> "std::bad_alloc"],
     [kind |-> "TimeoutError", msg |-> "[Errno 110] Connection timed out"]}
    \cup {[kind |-> "Exception", msg |-> m] : m \in Messages}

OutOfMemoryMessage == "Out of memory - file may be too large for this server"

\* process_file_task: a MemoryError is raised again with the fixed text,
\* everything else goes through.
process_file_task(raw) ==
    IF raw.kind = "MemoryError"
    THEN [kind |-> "MemoryError", msg |-> OutOfMemoryMessage]
    ELSE raw

\* An idle worker takes the oldest work item.
WorkerTakes(w) ==
    /\ th[w].pc = "idle"
    /\ queue # <<>>
    /\ queue' = Tail(queue)
    /\ fut' = [fut EXCEPT ![Head(queue)].state = "RUNNING"]
    /\ th' = [th EXCEPT ![w].pc = "task", ![w].f = Head(queue),
                        ![w].job_id = fut[Head(queue)].job_id]
    /\ UNCHANGED <<clock, nextId, jobs, heap, disk, notes, submits, crashes,
                   faults, files, sweeper>>

\* What use_case.execute leaves at dest_path: saver.save is its last step, so
\* the file is there when it returns.
OutputWritten(raw, output_path) ==
    IF raw.kind = "return" THEN {output_path} ELSE {}

\* process_file_task returns or raises: the future is resolved and the worker
\* invokes the callbacks registered by then.
TaskEnds(w, raw) ==
    /\ th[w].pc = "task"
    /\ files' = files \cup OutputWritten(raw, fut[th[w].f].output_path)
    /\ fut' = [fut EXCEPT ![th[w].f].state = "FINISHED",
                          ![th[w].f].outcome = process_file_task(raw)]
    /\ th' = [th EXCEPT ![w] = IF fut[th[w].f].hooked
                               THEN [th[w] EXCEPT !.pc = "h_get"]
                               ELSE IdleThread]
    /\ heap' = Referenced(heap, jobs, th')
    /\ UNCHANGED <<clock, nextId, jobs, disk, queue, notes, submits, crashes,
                   faults, sweeper>>

\* The transformation never returns: the worker is lost, the future stays
\* unresolved and its callback is never invoked.
TaskHangs(w) ==
    /\ th[w].pc = "task"
    /\ th' = [th EXCEPT ![w].pc = "hung"]
    /\ UNCHANGED <<clock, nextId, jobs, heap, disk, fut, queue, notes,
                   submits, crashes, faults, files, sweeper>>

\* self.job_timeout seconds have gone by since the dispatch of a task that
\* hangs.  future.result(timeout=self.job_timeout) is called in the done
\* callback only, that is, never for this future: no code runs here.
DeadlinePasses(w) ==
    /\ th[w].pc = "hung"
    /\ th' = [th EXCEPT ![w].pc = "overdue"]
    /\ UNCHANGED <<clock, nextId, jobs, heap, disk, fut, queue, notes,
                   submits, crashes, faults, files, sweeper>>

\* -------------------------------------------------------- _on_job_complete
\* job = self.jobs.get(job_id); an unknown id is logged and the hook returns.
HookGet(t) ==
    /\ th[t].pc = "h_get"
    /\ IF th[t].job_id \in jobs
       THEN /\ th' = [th EXCEPT ![t].pc = "h_result"]
            /\ fut' = fut
       ELSE /\ th' = [th EXCEPT ![t] = IdleThread]
            /\ fut' = [fut EXCEPT ![th[t].f] = NoFuture]
    /\ heap' = Referenced(heap, jobs, th')
    /\ UNCHANGED <<clock, nextId, jobs, disk, queue, notes, submits, crashes,
                   faults, files, sweeper>>

\* The status each branch of the try statement assigns.
ClassifyStatus(o) == IF o.kind = "return" THEN "COMPLETED" ELSE "FAILED"

TimeoutMessage == "Job timed out after " \o ToString(job_timeout) \o " seconds"

\* The error each except branch assigns: FuturesTimeoutError is the built-in
\* TimeoutError, so a TimeoutError raised by the task lands in the first one.
ClassifyError(o) ==
    CASE o.kind = "TimeoutError" -> TimeoutMessage
      [] o.kind = "MemoryError" -> OutOfMemoryMessage
      [] OTHER -> o.msg

\* The try statement on a resolved future: future.result() returns or raises
\* at once, and the branch taken assigns job.status and, when it is an except
\* branch, job.error.
OnJobComplete(job, o) ==
    IF o.kind = "return" THEN [job EXCEPT !.status = ClassifyStatus(o)]
    ELSE [job EXCEPT !.status = ClassifyStatus(o),
                     !.error = Some(ClassifyError(o))]

\* Mutation of the hook: the job it writes to is the one created last, as if
\* the id were kept in one place shared by all hooks.
HookResultSharedId(t) ==
    /\ th[t].pc = "h_result"
    /\ heap' = [heap EXCEPT ![nextId - 1] =
                                OnJobComplete(@, fut[th[t].f].outcome)]
    /\ th' = [th EXCEPT ![t].pc = "save_build", ![t].after = "h_notify"]
    /\ UNCHANGED <<clock, nextId, jobs, disk, fut, queue, notes, submits,
                   crashes, faults, files, sweeper>>

\* Mutation of the hook: it stamps the job with the time of its completion
\* in the field that holds the time of its creation.
HookResultStampsTime(t) ==
    /\ th[t].pc = "h_result"
    /\ heap' = [heap EXCEPT ![th[t].job_id] =
                    [OnJobComplete(@, fut[th[t].f].outcome)
                         EXCEPT !.created_at = clock]]
    /\ th' = [th EXCEPT ![t].pc = "save_build", ![t].after = "h_notify"]
    /\ UNCHANGED <<clock, nextId, jobs, disk, fut, queue, notes, submits,
                   crashes, faults, files, sweeper>>

HookResult(t) ==
    /\ th[t].pc = "h_result"
    /\ heap' = [heap EXCEPT ![th[t].job_id] =
                                OnJobComplete(@, fut[th[t].f].outcome)]
    /\ th' = [th EXCEPT ![t].pc = "save_build", ![t].after = "h_notify"]
    /\ UNCHANGED <<clock, nextId, jobs, disk, fut, queue, notes, submits,
                   crashes, faults, files, sweeper>>

\* The payload _notify_callback POSTs.
Payload(job) ==
    [job_id |-> job.id, status |-> JobStatus[job.status], error |-> job.error,
     output_file |-> IF job.status = "COMPLETED" THEN Some(job.output_path)
                     ELSE None,
     created_at |-> isoformat(job.created_at)]

\* Mutation: the finally block notifies without looking at callback_url.
NotifiesAlways(job) == TRUE

\* Whether the finally block calls _notify_callback, and whether that posts.
Notifies(job) == Truthy(job.callback_url)

\* What client.post does: a response with a status code, or an exception.
NotifyOutcomes == {"200", "500", "TimeoutException", "RequestError", "Exception"}

\* The branch of _notify_callback that deals with an outcome; "none" would be
\* an exception no except clause catches.
NotifyBranch(r) ==
    CASE r = "200" -> "info"
      [] r = "500" -> "warning"
      [] r = "TimeoutException" -> "except httpx.TimeoutException"
      [] r = "RequestError" -> "except httpx.RequestError"
      [] r = "Exception" -> "except Exception"
      [] OTHER -> "none"

\* Mutation of _notify_callback: a request that did not succeed marks the job
\* FAILED.
NotifyCallbackFailsJob(job, r) ==
    [job |-> IF r = "200" THEN job
             ELSE [job EXCEPT !.status = "FAILED",
                              !.error = Some("callback failed")],
     raises |-> FALSE]

\* _notify_callback(job) once the request has ended with r: every branch only
\* logs, so the Job object is as it was; raises tells whether an exception
\* leaves the method.
notify_callback(job, r) == [job |-> job, raises |-> NotifyBranch(r) = "none"]

\* if job.callback_url: self._notify_callback(job); one request, and then the
\* hook returns.  notes keeps each payload's status.
HookNotify(t, r) ==
    /\ th[t].pc = "h_notify"
    /\ notes' = IF Notifies(heap[th[t].job_id])
                THEN [notes EXCEPT ![th[t].job_id] =
                          Append(@, Payload(heap[th[t].job_id]).status)]
                ELSE notes
    /\ th' = [th EXCEPT ![t] = IdleThread]
    /\ fut' = [fut EXCEPT ![th[t].f] = NoFuture]
    /\ heap' = Referenced(
                   [heap EXCEPT ![th[t].job_id] =
                       IF Notifies(@) THEN notify_callback(@, r).job ELSE @],
                   jobs, th')
    /\ UNCHANGED <<clock, nextId, jobs, disk, queue, submits, crashes, faults,
                   files, sweeper>>

\* ------------------------------------------------------- cleanup_old_jobs
Windows == {0, 1}

\* Mutation of the scan: a job created exactly at the threshold goes too.
JobsToRemoveInclusive(now, max_compound_seconds) ==
    {j \in jobs : heap[j].created_at <= now - max_compound_seconds}

\* jobs_to_remove: the jobs created before now - max_compound_seconds.
JobsToRemove(now, max_compound_seconds) ==
    {j \in jobs : heap[j].created_at < now - max_compound_seconds}

\* The paths os.remove is called on for the jobs in S.
JobFiles(S) == UNION {{heap[j].input_path, heap[j].output_path} : j \in S}

\* The scan with its file deletions, the deletions from self.jobs, and the
\* save when any was removed.
CleanupOldJobs(win) ==
    /\ th[0].pc = "idle"
    /\ jobs' = jobs \ JobsToRemove(clock, win)
    /\ files' = files \ JobFiles(JobsToRemove(clock, win))
    /\ th' = [th EXCEPT ![0] =
                 IF JobsToRemove(clock, win) = {} THEN IdleThread
                 ELSE [IdleThread EXCEPT !.pc = "save_build"]]
    /\ heap' = Referenced(heap, jobs', th')
    /\ UNCHANGED <<clock, nextId, disk, fut, queue, notes, submits, crashes,
                   faults, sweeper>>

\* The same sweep when os.remove raises on a file p of a job j it removes:
\* the except block logs, the rest of j's files is skipped (the input file is
\* deleted first), and j is removed from the table all the same.
CleanupRemoveFails(win) ==
    /\ th[0].pc = "idle"
    /\ faults < MaxFaults
    /\ \E j \in JobsToRemove(clock, win) :
           \E p \in JobFiles({j}) \cap files :
               files' = (files \ JobFiles(JobsToRemove(clock, win)))
                        \cup (IF p = heap[j].input_path
                              THEN JobFiles({j}) \cap files ELSE {p})
    /\ faults' = faults + 1
    /\ jobs' = jobs \ JobsToRemove(clock, win)
    /\ th' = [th EXCEPT ![0] = [IdleThread EXCEPT !.pc = "save_build"]]
    /\ heap' = Referenced(heap, jobs', th')
    /\ UNCHANGED <<clock, nextId, disk, fut, queue, notes, submits, crashes,
                   sweeper>>

\* ---------------------------------------------------- download_job_result
\* Mutation of the route: the status is not looked at.
DownloadAnyStatus(j) ==
    IF j \notin jobs THEN [status_code |-> 404, path |-> None]
    ELSE [status_code |-> 200, path |-> Some(heap[j].output_path)]

\* GET /jobs/{job_id}/download: 404 for an unknown id, 400 unless the job is
\* COMPLETED, else the file at job.output_path.
download_job_result(j) ==
    IF j \notin jobs THEN [status_code |-> 404, path |-> None]
    ELSE IF heap[j].status # "COMPLETED"
         THEN [status_code |-> 400, path |-> None]
         ELSE [status_code |-> 200, path |-> Some(heap[j].output_path)]

\* The route reads the table and answers; nothing is written.
Download(j) ==
    /\ th[0].pc = "idle"
    /\ download_job_result(j).status_code \in {200, 400, 404}
    /\ UNCHANGED vars

\* ---------------------------------------------------------------- restart
\* The process dies and is started again: JobManager.__init__ builds the
\* table from the metadata file; threads, futures and queue are gone.
Restart ==
    /\ crashes < MaxCrashes
    /\ crashes' = crashes + 1
    /\ heap' = LoadJobsMetadata(disk)
    /\ jobs' = DOMAIN LoadJobsMetadata(disk)
    /\ th' = [t \in Threads |-> IdleThread]
    /\ fut' = [f \in 1..MaxSubmits |-> NoFuture]
    /\ queue' = <<>>
    /\ UNCHANGED <<clock, nextId, disk, notes, submits, faults, files,
                   sweeper>>

\* --------------------------------------------------------- specifications
\* The calls on a JobManager (create_job, submit_processing,
\* cleanup_old_jobs), the pool and its hooks; every metadata write succeeds
\* and the process lives on.
Next ==
    \/ Tick
    \/ \E cb \in CallbackUrls : CreateJob(cb)
    \/ \E j \in JobIds : SubmitUnknown(j)
    \/ SubmitNotFound
    \/ \E j \in JobIds : SubmitProcessing(j)
    \/ ExecutorSubmit
    \/ ExecutorRejects
    \/ AddDoneCallback
    \/ \E w \in Workers : WorkerTakes(w)
    \/ \E w \in Workers, raw \in RawOutcomes : TaskEnds(w, raw)
    \/ \E w \in Workers : TaskHangs(w)
    \/ \E w \in Workers : DeadlinePasses(w)
    \/ \E t \in Threads : HookGet(t)
    \/ \E t \in Threads : HookResult(t)
    \/ \E t \in Threads, r \in NotifyOutcomes : HookNotify(t, r)
    \/ \E t \in Threads : SaveBuild(t)
    \/ \E t \in Threads : SaveWrite(t)
    \/ \E win \in Windows : CleanupOldJobs(win)
    \/ \E j \in JobIds : Download(j)

Spec == Init /\ [][Next]_vars

\* The same with metadata writes that fail and with restarts.
FaultNext ==
    \/ Next
    \/ \E t \in Threads : SaveOpenFails(t)
    \/ \E t \in Threads : SaveDumpFails(t)
    \/ \E win \in Windows : CleanupRemoveFails(win)
    \/ Restart

FaultSpec == Init /\ [][FaultNext]_vars

\* ---- two jobs on a pool of MAX_WORKERS threads ------------------------
\* The JobManager as Init leaves it, with the larger pool.
PoolInit ==
    /\ clock = 0
    /\ nextId = 1
    /\ jobs = {}
    /\ heap = EmptyHeap
    /\ disk = AbsentFile
    /\ th = [t \in 0..MAX_WORKERS |-> IdleThread]
    /\ fut = [f \in 1..MaxSubmits |-> NoFuture]
    /\ queue = <<>>
    /\ notes = [j \in JobIds |-> <<>>]
    /\ submits = 0
    /\ crashes = 0
    /\ faults = 0
    /\ files = {}
    /\ sweeper = "sleeping"

\* Creation, submission and completion: the pool accepts every dispatch,
\* every task ends, and no sweep runs.
PoolNext ==
    \/ \E cb \in CallbackUrls : CreateJob(cb)
    \/ \E j \in JobIds : SubmitProcessing(j)
    \/ ExecutorSubmit
    \/ AddDoneCallback
    \/ \E w \in Workers : WorkerTakes(w)
    \/ \E w \in Workers, raw \in RawOutcomes : TaskEnds(w, raw)
    \/ \E t \in Threads : HookGet(t)
    \/ \E t \in Threads : HookResult(t)
    \/ \E t \in Threads, r \in NotifyOutcomes : HookNotify(t, r)
    \/ \E t \in Threads : SaveBuild(t)
    \/ \E t \in Threads : SaveWrite(t)

PoolSpec == PoolInit /\ [][PoolNext]_vars

\* ---- the pool under fair scheduling -----------------------------------
\* Creation, submission and completion on the pool of max_workers threads,
\* without sweeps and restarts; a task may return, raise or hang.
FairNext ==
    \/ \E cb \in CallbackUrls : CreateJob(cb)
    \/ \E j \in JobIds : SubmitProcessing(j)
    \/ ExecutorSubmit
    \/ AddDoneCallback
    \/ \E w \in Workers : WorkerTakes(w)
    \/ \E w \in Workers, raw \in RawOutcomes : TaskEnds(w, raw)
    \/ \E w \in Workers : TaskHangs(w)
    \/ \E t \in Threads : HookGet(t)
    \/ \E t \in Threads : HookResult(t)
    \/ \E t \in Threads, r \in NotifyOutcomes : HookNotify(t, r)
    \/ \E t \in Threads : SaveBuild(t)
    \/ \E t \in Threads : SaveWrite(t)

\* Every thread goes on with the call it is in: the caller of
\* submit_processing reaches executor.submit and add_done_callback, an idle
\* worker takes the oldest work item, a task returns, raises or is lost, and
\* a hook and a save run to their end.
FairSpec ==
    /\ Init
    /\ [][FairNext]_vars
    /\ WF_vars(ExecutorSubmit)
    /\ WF_vars(AddDoneCallback)
    /\ \A w \in 1..max_workers :
           /\ WF_vars(WorkerTakes(w))
           /\ WF_vars((\E raw \in RawOutcomes : TaskEnds(w, raw)) \/ TaskHangs(w))
    /\ \A t \in 0..max_workers :
           /\ WF_vars(HookGet(t))
           /\ WF_vars(HookResult(t))
           /\ WF_vars(\E r \in NotifyOutcomes : HookNotify(t, r))
           /\ WF_vars(SaveBuild(t))
           /\ WF_vars(SaveWrite(t))

\* ---- the HTTP routes: POST /process and GET /jobs/{job_id} ------------
\* submit_processing_job, first statement: job_manager.create_job(...), and
\* then on to the upload.
RouteCreateJob(cb) ==
    /\ th[0].pc = "idle"
    /\ nextId <= MaxJobs
    /\ submits < MaxSubmits
    /\ nextId' = nextId + 1
    /\ jobs' = jobs \cup {nextId}
    /\ heap' = [k \in (DOMAIN heap) \cup {nextId} |->
                   IF k = nextId THEN NewJob(nextId, cb, clock) ELSE heap[k]]
    /\ th' = [th EXCEPT ![0] = [IdleThread EXCEPT !.pc = "save_build",
                                   !.job_id = nextId, !.after = "r_upload"]]
    /\ UNCHANGED <<clock, disk, fut, queue, notes, submits, crashes, faults,
                   files, sweeper>>

\* shutil.copyfileobj wrote the upload to job.input_path and the file is
\* found there.
UploadSaved ==
    /\ th[0].pc = "r_upload"
    /\ files' = files \cup {heap[th[0].job_id].input_path}
    /\ th' = [th EXCEPT ![0].pc = "r_submit"]
    /\ UNCHANGED <<clock, nextId, jobs, heap, disk, fut, queue, notes,
                   submits, crashes, faults, sweeper>>

\* open or copyfileobj raises (no space, no directory): the except block
\* raises HTTPException(500).
UploadFails ==
    /\ th[0].pc = "r_upload"
    /\ th' = [th EXCEPT ![0].pc = "r_error"]
    /\ UNCHANGED <<clock, nextId, jobs, heap, disk, fut, queue, notes,
                   submits, crashes, faults, files, sweeper>>

\* The 500 goes to the client: a detail text, and no job id.
RouteRaises ==
    /\ th[0].pc = "r_error"
    /\ th' = [th EXCEPT ![0] = IdleThread]
    /\ heap' = Referenced(heap, jobs, th')
    /\ UNCHANGED <<clock, nextId, jobs, disk, fut, queue, notes, submits,
                   crashes, faults, files, sweeper>>

\* job_manager.submit_processing(job.id, ...) as the route calls it; when it
\* returns, the route answers with job.id.
RouteSubmit ==
    /\ th[0].pc = "r_submit"
    /\ submits' = submits + 1
    /\ heap' = [heap EXCEPT ![th[0].job_id].status = "PROCESSING"]
    /\ th' = [th EXCEPT ![0].pc = "save_build", ![0].after = "s_submit"]
    /\ UNCHANGED <<clock, nextId, jobs, disk, fut, queue, notes, crashes,
                   faults, files, sweeper>>

\* get_job_status: 404 for an unknown id, else the job's status value, the
\* message chosen by the conditional expression, the error and the output.
get_job_status(j) ==
    IF j \notin jobs
    THEN [status_code |-> 404, status |-> "", message |-> "Job not found",
          error |-> None, output_file |-> None]
    ELSE [status_code |-> 200,
          status |-> JobStatus[heap[j].status],
          message |-> IF heap[j].status = "PROCESSING" THEN "Processing..."
                      ELSE IF heap[j].status = "COMPLETED" THEN "Completed"
                      ELSE "Failed",
          error |-> heap[j].error,
          output_file |-> IF heap[j].status = "COMPLETED"
                          THEN Some(heap[j].output_path) ELSE None]

\* The route reads the table and answers; nothing is written.
Poll(j) ==
    /\ th[0].pc = "idle"
    /\ get_job_status(j).status_code \in {200, 404}
    /\ UNCHANGED vars

RouteNext ==
    \/ \E cb \in CallbackUrls : RouteCreateJob(cb)
    \/ UploadSaved
    \/ UploadFails
    \/ RouteRaises
    \/ RouteSubmit
    \/ ExecutorSubmit
    \/ ExecutorRejects
    \/ AddDoneCallback
    \/ \E w \in Workers : WorkerTakes(w)
    \/ \E w \in Workers, raw \in RawOutcomes : TaskEnds(w, raw)
    \/ \E t \in Threads : HookGet(t)
    \/ \E t \in Threads : HookResult(t)
    \/ \E t \in Threads, r \in NotifyOutcomes : HookNotify(t, r)
    \/ \E t \in Threads : SaveBuild(t)
    \/ \E t \in Threads : SaveWrite(t)
    \/ \E j \in JobIds : Poll(j)

RouteSpec == Init /\ [][RouteNext]_vars

\* ---- the sweeper task of the application's lifespan -------------------
\* run_periodic_cleanup is a coroutine on the event loop, thread 0: it is
\* suspended in asyncio.sleep, or thread 0 is running its sweep.  sweeper is
\* "sleeping" while the loop goes on, "cancelling" once cancel() was called
\* on the task, "done" when the coroutine has returned.

\* asyncio.sleep(600) returns and cleanup_old_jobs is called.
SweeperWakes(win) ==
    /\ sweeper = "sleeping"
    /\ CleanupOldJobs(win)

\* Mutation of the shutdown: the cancellation is delivered at once, wherever
\* the sweep is, as a signal to a thread would be; a write it cuts leaves
\* the opened file unfinished.
LifespanShutdownPreempts ==
    /\ sweeper = "sleeping"
    /\ sweeper' = "cancelling"
    /\ disk' = IF th[0].pc = "save_write" THEN GarbageFile ELSE disk
    /\ th' = [th EXCEPT ![0] = IdleThread]
    /\ heap' = Referenced(heap, jobs, th')
    /\ UNCHANGED <<clock, nextId, jobs, fut, queue, notes, submits, crashes,
                   faults, files>>

\* The shutdown half of lifespan: cleanup_task.cancel(), then await
\* cleanup_task.  It is code of the event loop, which runs it only between
\* the steps of its other tasks.
LifespanShutdown ==
    /\ th[0].pc = "idle"
    /\ sweeper = "sleeping"
    /\ sweeper' = "cancelling"
    /\ UNCHANGED <<clock, nextId, jobs, heap, disk, th, fut, queue, notes,
                   submits, crashes, faults, files>>

\* The event loop resumes the coroutine with CancelledError inside
\* asyncio.sleep; except asyncio.CancelledError: break.
SweeperCancelled ==
    /\ th[0].pc = "idle"
    /\ sweeper = "cancelling"
    /\ sweeper' = "done"
    /\ UNCHANGED <<clock, nextId, jobs, heap, disk, th, fut, queue, notes,
                   submits, crashes, faults, files>>

LifespanNext ==
    \/ Tick
    \/ \E cb \in CallbackUrls : CreateJob(cb)
    \/ SaveBuild(0)
    \/ SaveWrite(0)
    \/ \E win \in Windows : SweeperWakes(win)
    \/ LifespanShutdown
    \/ SweeperCancelled

\* The event loop runs a synchronous call to its end and delivers a pending
\* cancellation.
LifespanSpec ==
    /\ Init
    /\ [][LifespanNext]_vars
    /\ WF_vars(SaveBuild(0))
    /\ WF_vars(SaveWrite(0))
    /\ WF_vars(SweeperCancelled)

\* ---- JobManager.__init__ over whatever metadata file it finds --------
SampleJob(id, st) == [NewJob(id, None, 0) EXCEPT !.status = st]
GoodDicts ==
    {JobDict(SampleJob(id, st)) :
        id \in JobIds, st \in {"PENDING", "PROCESSING", "COMPLETED"}}
\* Records the loop raises on: JobStatus("bogus") and
\* datetime.fromisoformat("yesterday") are ValueErrors.
BadDicts ==
    {[JobDict(SampleJob(1, "COMPLETED")) EXCEPT !.status = "bogus"],
     [JobDict(SampleJob(2, "COMPLETED")) EXCEPT !.created_at = "yesterday"]}

RECURSIVE SeqsUpTo(_, _)
SeqsUpTo(S, n) ==
    IF n = 0 THEN {<<>>}
    ELSE SeqsUpTo(S, n - 1)
         \cup {Append(q, x) : q \in {r \in SeqsUpTo(S, n - 1) : Len(r) = n - 1},
                              x \in S}

SampleFiles ==
    {AbsentFile, GarbageFile}
    \cup {JsonFile(r) : r \in SeqsUpTo(GoodDicts \cup BadDicts, MaxFileLen)}

LoadInit ==
    /\ clock = 0
    /\ nextId = 1
    /\ jobs = {}
    /\ heap = EmptyHeap
    /\ disk \in SampleFiles
    /\ th = [t \in 0..max_workers |->
                IF t = 0 THEN [IdleThread EXCEPT !.pc = "init"] ELSE IdleThread]
    /\ fut = [f \in 1..MaxSubmits |-> NoFuture]
    /\ queue = <<>>
    /\ notes = [j \in JobIds |-> <<>>]
    /\ submits = 0
    /\ crashes = 0
    /\ faults = 0
    /\ files = {}
    /\ sweeper = "sleeping"

\* JobManager.__init__: self.jobs = {} and self._load_jobs_metadata().
Construct ==
    /\ th[0].pc = "init"
    /\ heap' = LoadJobsMetadata(disk)
    /\ jobs' = DOMAIN LoadJobsMetadata(disk)
    /\ th' = [th EXCEPT ![0] = IdleThread]
    /\ UNCHANGED <<clock, nextId, disk, fut, queue, notes, submits, crashes,
                   faults, files, sweeper>>

LoadSpec == LoadInit /\ [][Construct]_vars

\* ------------------------------------------------------------------ claims
Terminal == {"COMPLETED", "FAILED"}

\* Thread t takes the step of _on_job_complete that assigns the outcome.
Classifies(t) == th[t].pc = "h_result" /\ th'[t].pc = "save_build"

\* The records of a metadata file that carry job id j.
RecordsOf(file, j) ==
    {file.recs[i] : i \in {k \in 1..Len(file.recs) : file.recs[k].id = j}}

\* No call is running and no work item waits: every operation has returned.
Quiescent == queue = <<>> /\ \A t \in Threads : th[t].pc = "idle"

\* C1: a job whose status is COMPLETED or FAILED never changes status again,
\* whatever create_job, submit_processing, hooks and sweeps do afterwards.
C1_TerminalStatusIsFinal ==
    [][\A j \in (DOMAIN heap) \cap (DOMAIN heap') :
           heap[j].status \in Terminal => heap'[j].status = heap[j].status]_vars

\* C2: once the deadline of a job whose transformation never returns has
\* passed (and no call is running that could still be about to write), the
\* job is FAILED with the error that mentions the timeout.
C2_HungJobFailsAtDeadline ==
    \A w \in Workers :
        th[w].pc = "overdue" /\ th[0].pc = "idle" =>
            /\ heap[th[w].job_id].status = "FAILED"
            /\ heap[th[w].job_id].error = Some(TimeoutMessage)

\* C3: when executor.submit raises inside submit_processing, then on return
\* the job is FAILED with an error in self.jobs and in the metadata file.
C3_RejectedDispatchFailedOnDisk ==
    [][(th[0].pc = "s_submit" /\ th'[0].pc = "idle") =>
           /\ heap'[th[0].job_id].status = "FAILED"
           /\ heap'[th[0].job_id].error # None
           /\ RecordsOf(disk', th[0].job_id) # {}
           /\ \A d \in RecordsOf(disk', th[0].job_id) :
                  d.status = JobStatus["FAILED"] /\ d.error # None]_vars

\* C4: once every operation has returned, the metadata file holds exactly
\* the records of self.jobs with their status and error.  Stated for the
\* states in which no job carries the error of a rejected dispatch, whose
\* missing save is C3's subject.
C4_SnapshotMirrorsTable ==
    (Quiescent /\ \A j \in jobs : heap[j].error # Some(SubmitFailedMessage))
        => disk.kind # "garbage" /\ disk.recs = JobsData(jobs, heap)

\* C5: for every job in the table, error is set if and only if the status is
\* FAILED.
C5_ErrorIffFailed ==
    \A j \in jobs : (heap[j].error # None) <=> (heap[j].status = "FAILED")

\* C6: a job with a callback URL is notified only with a terminal status,
\* and once it is terminal and no call is working on it, it has been
\* notified exactly once.
C6_ExactlyOneNotification ==
    \A j \in jobs :
        Truthy(heap[j].callback_url) =>
            /\ \A i \in 1..Len(notes[j]) :
                   notes[j][i] \in {JobStatus[s] : s \in Terminal}
            /\ (heap[j].status \in Terminal
                /\ \A t \in Threads : th[t].pc = "idle" \/ th[t].job_id # j)
                   => Len(notes[j]) = 1

\* C7: a save that fails leaves the previous snapshot intact: a load after
\* it builds the table a load before it would have built.
C7_FailedSaveKeepsSnapshot ==
    [][faults' # faults =>
           LoadJobsMetadata(disk') = LoadJobsMetadata(disk)]_vars

\* A snapshot that is unparseable as a whole or holds a malformed record.
Corrupt(file) ==
    file.kind = "garbage"
    \/ \E i \in 1..Len(file.recs) : Malformed(file.recs[i])

\* C8: constructing the JobManager over a corrupt snapshot yields an empty
\* job table, whatever the corruption.
C8_CorruptSnapshotLoadsEmpty ==
    (th[0].pc = "idle" /\ Corrupt(disk)) => jobs = {}

\* C9: when the transformation raises, whatever the message, the hook leaves
\* the job FAILED with a non-empty error.
C9_RaisedFailureHasError ==
    [][\A t \in Threads :
           (Classifies(t) /\ fut[th[t].f].outcome.kind # "return") =>
               /\ heap'[th[t].job_id].status = "FAILED"
               /\ heap'[th[t].job_id].error # None
               /\ heap'[th[t].job_id].error # Some("")]_vars

\* C10: the hook maps a normal return to COMPLETED with error null, a
\* MemoryError to FAILED with the one fixed message, and any other raised
\* failure to FAILED with the failure's message verbatim.
C10_HookMapsOutcome ==
    [][\A t \in Threads :
           Classifies(t) =>
               LET o == fut[th[t].f].outcome
                   job == heap'[th[t].job_id]
               IN  CASE o.kind = "return" ->
                          job.status = "COMPLETED" /\ job.error = None
                     [] o.kind = "MemoryError" ->
                          job.status = "FAILED"
                          /\ job.error = Some(OutOfMemoryMessage)
                     [] OTHER ->
                          job.status = "FAILED" /\ job.error = Some(o.msg)]_vars

\* C11: a new job is PENDING; a PENDING job stays PENDING until
\* submit_processing is called on it, which makes it PROCESSING; no step
\* takes a job from PENDING to COMPLETED or FAILED, a rejected dispatch
\* included.
C11_PendingUntilSubmitted ==
    [][/\ \A j \in (DOMAIN heap') \ (DOMAIN heap) :
              heap'[j].status = "PENDING"
       /\ \A j \in (DOMAIN heap) \cap (DOMAIN heap') :
              heap[j].status = "PENDING" =>
                  \/ heap'[j].status = "PENDING"
                  \/ /\ heap'[j].status = "PROCESSING"
                     /\ th[0].pc = "idle"
                     /\ th'[0].job_id = j
                     /\ th'[0].after = "s_submit"]_vars

\* A job is FAILED by a rejected dispatch while another is still PENDING.
C11_Witness ==
    \E j, k \in jobs :
        /\ heap[j].status = "FAILED"
        /\ heap[j].error = Some(SubmitFailedMessage)
        /\ heap[k].status = "PENDING"

\* C12: when submit_processing returns after a dispatch the pool accepted
\* (from add_done_callback, or from the hook it ran inline), the job is in
\* the table and its status is no longer PENDING.
C12_SubmittedLeavesPending ==
    [][(th[0].pc \in {"s_callback", "h_get", "h_notify"} /\ th'[0].pc = "idle")
           => /\ th[0].job_id \in jobs'
              /\ heap'[th[0].job_id].status
                     \in {"PROCESSING", "COMPLETED", "FAILED"}]_vars

\* submit_processing has returned, the work item is not taken yet, and the
\* job reads PROCESSING.
C12_Witness ==
    /\ th[0].pc = "idle"
    /\ \E f \in 1..MaxSubmits :
           /\ fut[f].hooked
           /\ fut[f].state = "PENDING"
           /\ fut[f].job_id \in jobs
           /\ heap[fut[f].job_id].status = "PROCESSING"

\* C13: for every table the program reaches, what _save_jobs_metadata writes
\* loads back, in a new JobManager, as the same jobs with the same fields; a
\* PROCESSING job comes back PROCESSING.
C13_SaveLoadRoundTrip ==
    LET loaded == LoadJobsMetadata(Written(JobsData(jobs, heap)))
    IN  /\ DOMAIN loaded = jobs
        /\ \A j \in jobs : loaded[j] = heap[j]

\* A table with a PROCESSING job and a job that carries an error, both of
\* which the round trip gives back.
C13_Witness ==
    LET loaded == LoadJobsMetadata(Written(JobsData(jobs, heap)))
    IN  \E j, k \in jobs :
            /\ heap[j].status = "PROCESSING"
            /\ heap[k].error # None
            /\ heap[k].created_at > heap[j].created_at
            /\ j \in DOMAIN loaded /\ loaded[j].status = "PROCESSING"
            /\ k \in DOMAIN loaded /\ loaded[k].error = heap[k].error

\* C14 as stated: a sweep with window win keeps exactly the jobs not created
\* before now - win, whatever their status; with a window of 0 it removes
\* every job, and with a window no job's age exceeds it removes none.
C14_SweepWindowZeroRemovesAll ==
    [][\A win \in Windows :
           CleanupOldJobs(win) =>
               /\ jobs' = {j \in jobs : ~(heap[j].created_at < clock - win)}
               /\ (win = 0 => jobs' = {})
               /\ ((\A j \in jobs : clock - heap[j].created_at <= win)
                      => jobs' = jobs)]_vars

\* C14, amended: the same, where a window of 0 removes every job created
\* before the sweep's reading of the clock (a job created at that very
\* reading stays).
C14_SweepRemovesExpired ==
    [][\A win \in Windows :
           CleanupOldJobs(win) =>
               /\ jobs' = {j \in jobs : ~(heap[j].created_at < clock - win)}
               /\ (win = 0 =>
                      \A j \in jobs : heap[j].created_at < clock => j \notin jobs')
               /\ ((\A j \in jobs : clock - heap[j].created_at <= win)
                      => jobs' = jobs)]_vars

\* A sweep has just removed a job whose transformation is still running (its
\* worker holds the id, the table does not) and kept a younger one.
C14_Witness ==
    /\ th[0].pc = "save_build" /\ th[0].job_id = 0
    /\ jobs # {}
    /\ \E w \in Workers : th[w].pc = "task" /\ th[w].job_id \notin jobs

\* C15: when a hook issues the notification request (after its status write
\* and its save), the job's status in memory is COMPLETED or FAILED, never
\* PROCESSING.
C15_NotifiedWhenTerminal ==
    [][\A t \in Threads :
           (th[t].pc = "h_notify" /\ th'[t].pc = "idle"
            /\ Notifies(heap[th[t].job_id]))
               => heap[th[t].job_id].status \in Terminal]_vars

\* C16: while two jobs are submitted and completed on a pool of several
\* workers, no record leaves the table, no output_path changes, and the step
\* of a hook that assigns the outcome writes the status and error that the
\* outcome of its own future determines into its own job's record and
\* leaves every other record as it was.
C16_JobsDoNotInterfere ==
    [][/\ jobs \subseteq jobs'
       /\ \A k \in (DOMAIN heap) \cap (DOMAIN heap') :
              /\ heap'[k].output_path = heap[k].output_path
              /\ heap'[k].output_path = OutputPath(k)
       /\ \A t \in Threads :
              Classifies(t) =>
                  LET j == th[t].job_id
                      o == fut[th[t].f].outcome
                  IN  /\ fut[th[t].f].job_id = j
                      /\ heap'[j].status =
                             IF o.kind = "return" THEN "COMPLETED" ELSE "FAILED"
                      /\ heap'[j].error =
                             IF o.kind = "return" THEN heap[j].error
                             ELSE Some(ClassifyError(o))
                      /\ \A k \in (DOMAIN heap) \ {j} :
                             k \in DOMAIN heap' /\ heap'[k] = heap[k]]_vars

\* The hooks of two jobs run at the same time on two threads: one has
\* written COMPLETED and is about to notify, the other is about to write the
\* failure of its own task.
C16_Witness ==
    \E t1, t2 \in Threads :
        /\ th[t1].pc = "h_notify" /\ th[t2].pc = "h_result"
        /\ th[t1].job_id # th[t2].job_id
        /\ heap[th[t1].job_id].status = "COMPLETED"
        /\ heap[th[t1].job_id].error = None
        /\ fut[th[t2].f].outcome.kind = "Exception"

\* C17: whatever the notification request ends with (2xx, another status
\* code, a timeout, a transport error, any other exception), no exception
\* leaves _notify_callback, the job's status and error are what they were,
\* exactly one request was made, and the hook has returned.
C17_NotificationOutcomeIgnored ==
    [][\A t \in Threads, r \in NotifyOutcomes :
           (HookNotify(t, r) /\ Notifies(heap[th[t].job_id])) =>
               LET j == th[t].job_id
               IN  /\ ~notify_callback(heap[j], r).raises
                   /\ j \in DOMAIN heap' =>
                          /\ heap'[j].status = heap[j].status
                          /\ heap'[j].error = heap[j].error
                   /\ Len(notes'[j]) = Len(notes[j]) + 1
                   /\ th'[t].pc = "idle"]_vars

\* A job has been notified once, every call has returned, and the job is
\* still COMPLETED without an error.
C17_Witness ==
    /\ \A t \in Threads : th[t].pc = "idle"
    /\ \E j \in jobs :
           /\ notes[j] = <<JobStatus["COMPLETED"]>>
           /\ heap[j].status = "COMPLETED"
           /\ heap[j].error = None

\* C18: no request is ever made for a job that has no callback URL, whatever
\* its outcome.
C18_NoCallbackNoNotification ==
    \A j \in DOMAIN heap : heap[j].callback_url = None => notes[j] = <<>>

\* Every call has returned, and a job without a callback URL has been
\* through its hook: one COMPLETED, or FAILED by what its task raised.
C18_Witness ==
    /\ \A t \in Threads : th[t].pc = "idle"
    /\ \E j \in jobs :
           /\ heap[j].callback_url = None
           /\ \/ heap[j].status = "COMPLETED"
              \/ heap[j].status = "FAILED"
                 /\ heap[j].error = Some(OutOfMemoryMessage)
           /\ notes[j] = <<>>

\* C19: submit_processing on an id that is not in the table does nothing but
\* raise: from the lookup to the ValueError reaching the caller, the table,
\* its records, the snapshot, the futures and the work queue stay as they
\* were.
C19_UnknownIdChangesNothing ==
    [][/\ \A j \in JobIds :
              SubmitUnknown(j) =>
                  /\ th'[0].pc = "s_raise"
                  /\ UNCHANGED <<jobs, heap, disk, fut, queue, notes, submits>>
       /\ (th[0].pc = "s_raise" /\ th'[0] # th[0]) =>
              /\ th'[0].pc = "idle"
              /\ UNCHANGED <<jobs, heap, disk, fut, queue, notes, submits>>]_vars

\* submit_processing is raising for an unknown id while the table holds a
\* job and the snapshot exists.
C19_Witness ==
    /\ th[0].pc = "s_raise"
    /\ jobs # {}
    /\ disk.kind = "json"

\* C20: at any moment, a download request gets the file at the job's
\* output_path exactly when the job is in the table and COMPLETED; for a job
\* that is PENDING, PROCESSING or FAILED the answer is a client error (400),
\* and for an id that is not in the table it is 404.
C20_DownloadOnlyCompleted ==
    \A j \in JobIds :
        LET r == download_job_result(j)
        IN  /\ r.status_code = 200 <=>
                   (j \in jobs /\ heap[j].status = "COMPLETED")
            /\ r.status_code = 200 => r.path = Some(heap[j].output_path)
            /\ (j \in jobs
                /\ heap[j].status \in {"PENDING", "PROCESSING", "FAILED"})
                   => r.status_code = 400
            /\ j \notin jobs => r.status_code = 404

\* One job can be downloaded while another, FAILED, is refused.
C20_Witness ==
    \E j, k \in JobIds :
        /\ download_job_result(j).status_code = 200
        /\ download_job_result(j).path = Some(OutputPath(j))
        /\ k \in jobs /\ heap[k].status = "FAILED"
        /\ download_job_result(k).status_code = 400

\* C21: a request to POST /process that ends with an error, and so without
\* a job id for the caller, leaves no record of its own in the table; and a
\* poll of a job in the table answers with one of the four status values.
C21_CallerCanPollItsJob ==
    [][/\ (th[0].pc = "r_error" /\ th'[0].pc = "idle")
              => th[0].job_id \notin jobs'
       /\ \A j \in jobs :
              get_job_status(j).status
                  \in {"pending", "processing", "completed", "failed"}]_vars

\* C22: a snapshot write that fails ends the save as a write that succeeds
\* does: the thread goes on with its call (create_job returns its job,
\* submit_processing goes to the dispatch, the hook goes to the
\* notification), and the table, its records, the futures and the work queue
\* are what they would be after a successful write.
C22_FailedWriteDoesNotBlock ==
    [][\A t \in Threads :
           (faults' # faults /\ th[t].pc = "save_write" /\ th'[t] # th[t]) =>
               /\ th' = AfterSave(t)
               /\ heap' = Referenced(heap, jobs, AfterSave(t))
               /\ UNCHANGED <<jobs, nextId, fut, queue, notes, submits, files>>]_vars

\* The only job ever created went through its hook; the hook's write of the
\* snapshot failed, and the hook is about to notify with the terminal
\* status it set.
C22_Witness ==
    /\ nextId = 2 /\ submits = 1 /\ faults = 1 /\ crashes = 0
    /\ disk = GarbageFile
    /\ \E t \in Threads :
           /\ th[t].pc = "h_notify"
           /\ heap[th[t].job_id].status \in Terminal

\* C23: the id, input_path, output_path, callback_url and created_at of a
\* job are those of its creation: no step changes them on a job that stays
\* in the table, and the two paths are the functions InputPath and
\* OutputPath of the id.
C23_CreationFieldsFixed ==
    [][/\ \A k \in jobs \cap jobs' :
              /\ heap'[k].id = heap[k].id
              /\ heap'[k].input_path = heap[k].input_path
              /\ heap'[k].output_path = heap[k].output_path
              /\ heap'[k].callback_url = heap[k].callback_url
              /\ heap'[k].created_at = heap[k].created_at
       /\ \A k \in jobs' :
              /\ heap'[k].id = k
              /\ heap'[k].input_path = InputPath(k)
              /\ heap'[k].output_path = OutputPath(k)]_vars

\* A job created at time 0 with a callback URL was submitted, ran and was
\* classified by its hook after the clock moved on, and its notification is
\* out; a second job was created meanwhile.
C23_Witness ==
    /\ clock = 1
    /\ 1 \in jobs
    /\ heap[1].status \in Terminal
    /\ heap[1].created_at = 0
    /\ heap[1].callback_url # None
    /\ nextId = 3 /\ 2 \in jobs
    /\ Len(notes[1]) = 1

\* C24: no step of the completion hook (the lookup, the classification, the
\* snapshot save it ends with, the notification) is taken by thread 0, the
\* thread that calls submit_processing.
C24_HookOffCallerThread ==
    /\ th[0].pc \notin {"h_get", "h_result", "h_notify"}
    /\ ~(th[0].pc \in {"save_build", "save_write"} /\ th[0].after = "h_notify")

\* C25: when no call is running and no work item waits or runs, the input
\* file and the output file of every job that a sweep has removed from the
\* table are gone from the disk.
C25_SweptJobLeavesNoFiles ==
    Quiescent =>
        \A j \in 1..(nextId - 1) :
            j \notin jobs =>
                /\ InputPath(j) \notin files
                /\ OutputPath(j) \notin files

\* C27: a job that a sweep has removed does not come back: no step puts its
\* id into the table again, and once every call has returned the snapshot
\* holds no record with the id of a removed job.
C27_SweptJobStaysRemoved ==
    [][/\ \A j \in 1..(nextId - 1) : j \notin jobs => j \notin jobs'
       /\ (Quiescent' /\ disk'.kind = "json") =>
              \A j \in 1..(nextId' - 1) :
                  j \notin jobs' => RecordsOf(disk', j) = {}]_vars

\* C26: the cancellation of the sweeper is requested and delivered only
\* while thread 0 is between calls, so never inside a sweep or its snapshot
\* write; the snapshot is never left unfinished; a sweep that started its
\* save reaches the end of it; and a cancelled sweeper terminates.
C26_CancelOnlyWhileSleeping ==
    /\ [][sweeper' # sweeper => (th[0].pc = "idle" /\ UNCHANGED <<th, disk>>)]_vars
    /\ [](disk.kind # "garbage")
    /\ (th[0].pc \in {"save_build", "save_write"}) ~> (th[0].pc = "idle")
    /\ (sweeper = "cancelling") ~> (sweeper = "done")

\* The sweeper removed the only job and wrote the snapshot without it, then
\* it was cancelled and has terminated.
C26_Witness ==
    /\ sweeper = "done"
    /\ nextId = 2 /\ jobs = {}
    /\ disk = JsonFile(<<>>)
    /\ th[0].pc = "idle"

\* Job j has a work item on the pool: queued, running or finished.
Dispatched(j) == \E f \in DOMAIN fut : fut[f].job_id = j

\* A work item of job j has not returned or raised, and a worker is lost to a
\* transformation that never returns.
Blocked(j) ==
    /\ \E f \in DOMAIN fut :
           fut[f].job_id = j /\ fut[f].state \in {"PENDING", "RUNNING"}
    /\ \E w \in Workers : th[w].pc \in {"hung", "overdue"}

\* C28: under fair scheduling, without restart and sweep, a job that was
\* dispatched reaches COMPLETED or FAILED, whatever is queued ahead of it,
\* unless a transformation that never returns keeps its own from returning
\* or raising.
C28_DispatchedJobTerminates ==
    \A j \in JobIds :
        Dispatched(j) ~> ((j \in jobs /\ heap[j].status \in Terminal) \/ Blocked(j))

\* Two jobs were dispatched to the one worker, both transformations ended,
\* both hooks ran to their end, and both jobs are terminal.
C28_Witness ==
    /\ Quiescent
    /\ submits = 2
    /\ jobs = {1, 2}
    /\ heap[1].status \in Terminal
    /\ heap[2].status \in Terminal
    /\ \A w \in Workers : th[w].pc = "idle"

====
